---- MODULE Spec2Model ----
(***************************************************************************)
(* Model of qiime2/scripts/03_creating_separate_stacks_mapping_files.py:   *)
(* create_mapping_files reads a tab-separated table, groups its rows by    *)
(* sublibrary and writes one <sublibrary>_tags.tsv file per group.         *)
(*                                                                         *)
(* Text is modelled as sequences of character codes, so that str.strip,    *)
(* str.split, the f-string formatting and sorted() are computed as Python  *)
(* computes them.  The output directory is a flag (does it exist) and a    *)
(* function from file name to file content.                                *)
(***************************************************************************)
EXTENDS Integers, Sequences, FiniteSets, TLC

\* ------------------------------------------------------------------ bounds
\* Largest number of lines after the header in the input file.
MaxRows == 2
\* Largest number of times main() is run on the same directory.
MaxRuns == 2

\* ------------------------------------------------------- program constants
TAB == 9
NL == 10
SAMPLE_ID == 0
SUBLIBRARY_ID == 1
S16_FORWARD_TAG == 3
S16_REVERSE_TAG == 5
ITS1_FORWARD_TAG == 7
ITS1_REVERSE_TAG == 9
MinColumns == 10
\* os.makedirs(output_dir, exist_ok=True)
ExistOk == TRUE
\* "_16S", "_ITS1" and "_tags.tsv"
Suffix16S == <<95, 49, 54, 83>>
SuffixITS1 == <<95, 73, 84, 83, 49>>
TagsSuffix == <<95, 116, 97, 103, 115, 46, 116, 115, 118>>
\* The characters str.strip() removes (str.isspace, ASCII range).
Whitespace == {9, 10, 11, 12, 13, 28, 29, 30, 31, 32}

\* ------------------------------------------------------------ pure helpers
RECURSIVE LStrip(_)
LStrip(s) ==
    IF s = <<>> THEN s
    ELSE IF Head(s) \in Whitespace THEN LStrip(Tail(s)) ELSE s

RECURSIVE RStrip(_)
RStrip(s) ==
    IF s = <<>> THEN s
    ELSE IF s[Len(s)] \in Whitespace THEN RStrip(SubSeq(s, 1, Len(s) - 1)) ELSE s

\* line.strip(): leading and trailing whitespace removed, tabs included.
Strip(s) == RStrip(LStrip(s))

\* The position of the first character c of s (0 when there is none).
FirstIndex(s, c) ==
    IF \A n \in 1..Len(s) : s[n] # c THEN 0
    ELSE CHOOSE n \in 1..Len(s) : s[n] = c /\ \A m \in 1..(n - 1) : s[m] # c

\* s.split(c): empty fields are kept, and "" splits to [""].
RECURSIVE SplitOn(_, _)
SplitOn(s, c) ==
    LET p == FirstIndex(s, c)
    IN  IF p = 0 THEN <<s>>
        ELSE <<SubSeq(s, 1, p - 1)>> \o SplitOn(SubSeq(s, p + 1, Len(s)), c)

\* line.split('\t')
SplitTab(s) == SplitOn(s, TAB)

\* [line.strip() for line in lines[1:] if line.strip()]
DataLines(ls) ==
    LET rest == Tail(ls)
        stripped == [n \in 1..Len(rest) |-> Strip(rest[n])]
    IN  SelectSeq(stripped, LAMBDA l : l # <<>>)

\* f"{forward}\t{reverse}\t{sample_name}\n"
FormatSample(sample) ==
    sample.forward_tag \o <<TAB>> \o sample.reverse_tag \o <<TAB>>
        \o sample.sample_name \o <<NL>>

\* os.path.join(output_dir, f"{sublibrary_id}_tags.tsv"), within output_dir
OutputFile(sublibrary_id) == sublibrary_id \o TagsSuffix

\* Python's order on str: lexicographic by code point.
RECURSIVE StrLess(_, _)
StrLess(a, b) ==
    IF b = <<>> THEN FALSE
    ELSE IF a = <<>> THEN TRUE
    ELSE \/ Head(a) < Head(b)
         \/ Head(a) = Head(b) /\ StrLess(Tail(a), Tail(b))

RECURSIVE InsertSorted(_, _)
InsertSorted(x, t) ==
    IF t = <<>> THEN <<x>>
    ELSE IF StrLess(Head(t), x) THEN <<Head(t)>> \o InsertSorted(x, Tail(t))
    ELSE <<x>> \o t

RECURSIVE SortStrings(_)
SortStrings(s) == IF s = <<>> THEN <<>> ELSE InsertSorted(Head(s), SortStrings(Tail(s)))

\* The dict sublibraries is an insertion-ordered sequence of
\* [id |-> key, samples |-> list].
DictKeys(d) == [n \in 1..Len(d) |-> d[n].id]
DictHas(d, key) == \E n \in 1..Len(d) : d[n].id = key
DictPos(d, key) == CHOOSE n \in 1..Len(d) : d[n].id = key
DictGet(d, key) == d[DictPos(d, key)].samples

\* if sublibrary_id not in sublibraries: sublibraries[sublibrary_id] = []
DictSetDefault(d, key) ==
    IF DictHas(d, key) THEN d ELSE Append(d, [id |-> key, samples |-> <<>>])

\* sublibraries[sublibrary_id].append(...) twice
DictExtend(d, key, recs) ==
    [d EXCEPT ![DictPos(d, key)].samples = @ \o recs]

\* list(sublibraries.keys()): the keys as the dict holds them, unsorted.
KeysInInsertionOrder(d) == DictKeys(d)

\* sorted(sublibraries.keys())
SortedKeys(d) == SortStrings(DictKeys(d))

\* The two entries of one row with the ITS1 entry appended first.
RowSamplesSwapped(columns) ==
    << [forward_tag |-> columns[ITS1_FORWARD_TAG + 1],
        reverse_tag |-> columns[ITS1_REVERSE_TAG + 1],
        sample_name |-> columns[SAMPLE_ID + 1] \o SuffixITS1],
       [forward_tag |-> columns[S16_FORWARD_TAG + 1],
        reverse_tag |-> columns[S16_REVERSE_TAG + 1],
        sample_name |-> columns[SAMPLE_ID + 1] \o Suffix16S] >>

\* The two entries of one accepted row, in the order they are appended.
RowSamples(columns) ==
    << [forward_tag |-> columns[S16_FORWARD_TAG + 1],
        reverse_tag |-> columns[S16_REVERSE_TAG + 1],
        sample_name |-> columns[SAMPLE_ID + 1] \o Suffix16S],
       [forward_tag |-> columns[ITS1_FORWARD_TAG + 1],
        reverse_tag |-> columns[ITS1_REVERSE_TAG + 1],
        sample_name |-> columns[SAMPLE_ID + 1] \o SuffixITS1] >>

\* if len(columns) < 10: ... continue
TooFewColumns(columns) == Len(columns) < MinColumns

\* if not sample_id or not sublibrary_id: continue
EmptyIds(columns) ==
    columns[SAMPLE_ID + 1] = <<>> \/ columns[SUBLIBRARY_ID + 1] = <<>>

\* open(output_file, 'a') keeps what the file holds.
OpenAppend(files, name) ==
    IF name \in DOMAIN files THEN files ELSE (name :> <<>>) @@ files

\* open(output_file, 'w') creates the file or truncates it.
OpenWrite(files, name) == (name :> <<>>) @@ files

\* file.write(text)
WriteTo(files, name, text) == [files EXCEPT ![name] = @ \o text]

\* ------------------------------------------------------------------ inputs
FldEmpty == <<>>
FldS == <<83>>
FldT == <<84>>
FldL == <<76>>
FldM == <<77>>
FldP == <<112>>
FldA == <<65>>
FldC == <<67>>
FldG == <<71>>
FldX == <<120>>

RECURSIVE JoinTab(_)
JoinTab(fields) ==
    IF Len(fields) = 1 THEN fields[1]
    ELSE fields[1] \o <<TAB>> \o JoinTab(Tail(fields))

\* One line of the file as readlines() returns it.
TextLine(fields) == JoinTab(fields) \o <<NL>>

HeaderLine == TextLine(<<FldP, FldP>>)

\* Rows with ten non-empty fields.
FullRows ==
    { TextLine(<<s, k, FldP, FldA, FldP, FldT, FldP, FldG, FldP, FldC>>) :
        s \in {FldS, FldT}, k \in {FldL, FldM} }

\* Rows with an empty field, too few fields, an eleventh field, or nothing.
EdgeRows ==
    { TextLine(<<FldS, FldL, FldP, FldA, FldP, FldT, FldP, FldG, FldP, FldEmpty>>),
      TextLine(<<FldS, FldL, FldP, FldA, FldP, FldT, FldP, FldG, FldP, FldEmpty, FldX>>),
      TextLine(<<FldEmpty, FldL, FldP, FldA, FldP, FldT, FldP, FldG, FldP, FldC>>),
      TextLine(<<FldEmpty, FldL, FldP, FldA, FldP, FldT, FldP, FldG, FldP, FldC, FldX>>),
      TextLine(<<FldS, FldEmpty, FldP, FldA, FldP, FldT, FldP, FldG, FldP, FldC>>),
      TextLine(<<FldS, FldL, FldP, FldEmpty, FldP, FldT, FldP, FldG, FldP, FldC>>),
      TextLine(<<FldS, FldL, FldP, FldA, FldP, FldT, FldP, FldG>>),
      TextLine(<<FldEmpty>>) }

InputRows == FullRows \cup EdgeRows

RowSeqs == UNION { [1..n -> InputRows] : n \in 0..MaxRows }

\* The input file's lines: no line at all, or a header and up to MaxRows rows.
InputFiles == {<<>>} \cup { <<HeaderLine>> \o rows : rows \in RowSeqs }

\* A file a previous use of the directory left behind.
StaleFiles == (OutputFile(FldL) :> <<111, 108, 100, NL>>)

\* ------------------------------------------------------------------- state
VARIABLES
    inputExists,    \* the input path names a file
    inputFile,      \* its lines
    dirExists,      \* output_dir exists
    fs,             \* output_dir: file name -> content
    openFiles,      \* names of the output files that are open
    pc,             \* position in create_mapping_files
    outcome,        \* how the call ended
    lines,          \* lines
    data_lines,     \* data_lines
    lineIdx,        \* position of the for loop over data_lines
    sublibraries,   \* sublibraries
    sortedKeys,     \* sorted(sublibraries.keys())
    keyIdx,         \* position of the for loop over the sorted keys
    sampleIdx,      \* position of the for loop over samples
    files_created,  \* files_created
    runs,           \* calls of create_mapping_files so far
    fsAtCall,       \* fs when the current call started
    dirAtCall,      \* dirExists when the current call started
    opened          \* sublibrary ids whose file the current call opened, in order

vars == << inputExists, inputFile, dirExists, fs, openFiles, pc, outcome, lines,
           data_lines, lineIdx, sublibraries, sortedKeys, keyIdx, sampleIdx,
           files_created, runs, fsAtCall, dirAtCall, opened >>

locals == << lines, data_lines, lineIdx, sublibraries, sortedKeys, keyIdx,
             sampleIdx, files_created >>

world == << inputExists, inputFile, dirExists, fs, openFiles >>

history == << runs, fsAtCall, dirAtCall, opened >>

Init ==
    /\ inputExists \in BOOLEAN
    /\ inputFile \in (IF inputExists THEN InputFiles ELSE {<<>>})
    /\ dirExists \in BOOLEAN
    /\ fs = IF dirExists THEN StaleFiles ELSE <<>>
    /\ openFiles = {}
    /\ pc = "start"
    /\ outcome = "running"
    /\ lines = <<>>
    /\ data_lines = <<>>
    /\ lineIdx = 1
    /\ sublibraries = <<>>
    /\ sortedKeys = <<>>
    /\ keyIdx = 1
    /\ sampleIdx = 1
    /\ files_created = 0
    /\ runs = 1
    /\ fsAtCall = fs
    /\ dirAtCall = dirExists
    /\ opened = <<>>

\* ----------------------------------------------------------------- actions
\* The missing file found only after os.makedirs has run.
ReadMissingAfterMakedirs ==
    /\ pc = "start"
    /\ ~inputExists
    /\ dirExists' = TRUE
    /\ pc' = "done"
    /\ outcome' = "missing"
    /\ UNCHANGED << inputExists, inputFile, fs, openFiles, locals, history >>

\* except FileNotFoundError: print(...); return
ReadMissing ==
    /\ pc = "start"
    /\ ~inputExists
    /\ pc' = "done"
    /\ outcome' = "missing"
    /\ UNCHANGED << world, locals, history >>

\* with open(input_file, 'r') as file: lines = file.readlines()
ReadLines ==
    /\ pc = "start"
    /\ inputExists
    /\ lines' = inputFile
    /\ pc' = "header"
    /\ UNCHANGED << world, outcome, data_lines, lineIdx, sublibraries, sortedKeys,
                    keyIdx, sampleIdx, files_created, history >>

\* header = lines[0]...: IndexError when the file has no line;
\* data_lines = [...]
ParseHeader ==
    /\ pc = "header"
    /\ IF lines = <<>>
       THEN /\ pc' = "done"
            /\ outcome' = "IndexError"
            /\ UNCHANGED data_lines
       ELSE /\ data_lines' = DataLines(lines)
            /\ pc' = "makedirs"
            /\ UNCHANGED outcome
    /\ UNCHANGED << world, lines, lineIdx, sublibraries, sortedKeys, keyIdx,
                    sampleIdx, files_created, history >>

\* os.makedirs(output_dir, exist_ok=True); sublibraries = {}
MakeDirs ==
    /\ pc = "makedirs"
    /\ IF dirExists /\ ~ExistOk
       THEN /\ pc' = "done"
            /\ outcome' = "FileExistsError"
            /\ UNCHANGED << dirExists, sublibraries, lineIdx >>
       ELSE /\ dirExists' = TRUE
            /\ sublibraries' = <<>>
            /\ lineIdx' = 1
            /\ pc' = "group"
            /\ UNCHANGED outcome
    /\ UNCHANGED << inputExists, inputFile, fs, openFiles, lines, data_lines,
                    sortedKeys, keyIdx, sampleIdx, files_created, history >>

\* One iteration of: for line in data_lines, with the group created before
\* the row is validated.
GroupLineCreateFirst ==
    /\ pc = "group"
    /\ lineIdx <= Len(data_lines)
    /\ LET columns == SplitTab(data_lines[lineIdx])
           key == IF Len(columns) > SUBLIBRARY_ID THEN columns[SUBLIBRARY_ID + 1]
                  ELSE <<>>
           d == DictSetDefault(sublibraries, key)
       IN  sublibraries' =
               IF TooFewColumns(columns) THEN d
               ELSE IF EmptyIds(columns) THEN d
               ELSE DictExtend(d, key, RowSamples(columns))
    /\ lineIdx' = lineIdx + 1
    /\ UNCHANGED << world, pc, outcome, lines, data_lines, sortedKeys, keyIdx,
                    sampleIdx, files_created, history >>

\* One iteration of: for line in data_lines
GroupLine ==
    /\ pc = "group"
    /\ lineIdx <= Len(data_lines)
    /\ LET columns == SplitTab(data_lines[lineIdx])
       IN  sublibraries' =
               IF TooFewColumns(columns) THEN sublibraries
               ELSE IF EmptyIds(columns) THEN sublibraries
               ELSE DictExtend(DictSetDefault(sublibraries, columns[SUBLIBRARY_ID + 1]),
                               columns[SUBLIBRARY_ID + 1], RowSamples(columns))
    /\ lineIdx' = lineIdx + 1
    /\ UNCHANGED << world, pc, outcome, lines, data_lines, sortedKeys, keyIdx,
                    sampleIdx, files_created, history >>

\* files_created = 0; for sublibrary_id in sorted(sublibraries.keys())
StartWriting ==
    /\ pc = "group"
    /\ lineIdx > Len(data_lines)
    /\ sortedKeys' = SortedKeys(sublibraries)
    /\ keyIdx' = 1
    /\ files_created' = 0
    /\ pc' = "next_key"
    /\ UNCHANGED << world, outcome, lines, data_lines, lineIdx, sublibraries,
                    sampleIdx, history >>

\* with open(output_file, 'w') as file
OpenOutput ==
    /\ pc = "next_key"
    /\ keyIdx <= Len(sortedKeys)
    /\ fs' = OpenWrite(fs, OutputFile(sortedKeys[keyIdx]))
    /\ openFiles' = openFiles \cup {OutputFile(sortedKeys[keyIdx])}
    /\ opened' = Append(opened, sortedKeys[keyIdx])
    /\ sampleIdx' = 1
    /\ pc' = "write"
    /\ UNCHANGED << inputExists, inputFile, dirExists, outcome, lines, data_lines,
                    lineIdx, sublibraries, sortedKeys, keyIdx, files_created,
                    runs, fsAtCall, dirAtCall >>

\* One iteration of: for sample in samples: file.write(...)
WriteSample ==
    /\ pc = "write"
    /\ sampleIdx <= Len(DictGet(sublibraries, sortedKeys[keyIdx]))
    /\ fs' = WriteTo(fs, OutputFile(sortedKeys[keyIdx]),
                     FormatSample(DictGet(sublibraries, sortedKeys[keyIdx])[sampleIdx]))
    /\ sampleIdx' = sampleIdx + 1
    /\ UNCHANGED << inputExists, inputFile, dirExists, openFiles, pc, outcome,
                    lines, data_lines, lineIdx, sublibraries, sortedKeys, keyIdx,
                    files_created, history >>

\* The with block ends and closes the file; files_created += 1
CloseOutput ==
    /\ pc = "write"
    /\ sampleIdx > Len(DictGet(sublibraries, sortedKeys[keyIdx]))
    /\ openFiles' = openFiles \ {OutputFile(sortedKeys[keyIdx])}
    /\ files_created' = files_created + 1
    /\ keyIdx' = keyIdx + 1
    /\ pc' = "next_key"
    /\ UNCHANGED << inputExists, inputFile, dirExists, fs, outcome, lines,
                    data_lines, lineIdx, sublibraries, sortedKeys, sampleIdx,
                    history >>

\* print(" Process complete!") ...
Finish ==
    /\ pc = "next_key"
    /\ keyIdx > Len(sortedKeys)
    /\ pc' = "done"
    /\ outcome' = "complete"
    /\ UNCHANGED << world, locals, history >>

\* main() is run again on the same paths; the input file may have been
\* removed in between.
RunAgain ==
    /\ pc = "done"
    /\ runs < MaxRuns
    /\ runs' = runs + 1
    /\ \/ UNCHANGED inputExists
       \/ inputExists /\ inputExists' = FALSE
    /\ fsAtCall' = fs
    /\ dirAtCall' = dirExists
    /\ opened' = <<>>
    /\ pc' = "start"
    /\ outcome' = "running"
    /\ lines' = <<>>
    /\ data_lines' = <<>>
    /\ lineIdx' = 1
    /\ sublibraries' = <<>>
    /\ sortedKeys' = <<>>
    /\ keyIdx' = 1
    /\ sampleIdx' = 1
    /\ files_created' = 0
    /\ UNCHANGED << inputFile, dirExists, fs, openFiles >>

Next ==
    \/ ReadMissing
    \/ ReadLines
    \/ ParseHeader
    \/ MakeDirs
    \/ GroupLine
    \/ StartWriting
    \/ OpenOutput
    \/ WriteSample
    \/ CloseOutput
    \/ Finish
    \/ RunAgain

Spec == Init /\ [][Next]_vars

\* ------------------------------------------------- the table as it is given
\* A line of the input file without its line terminator.
RawRow(l) == IF l # <<>> /\ l[Len(l)] = NL THEN SubSeq(l, 1, Len(l) - 1) ELSE l

\* The tab-separated fields of a line of the input file.
RawFields(l) == SplitOn(RawRow(l), TAB)

\* The lines after the header.
RawRows == IF inputFile = <<>> THEN <<>> ELSE Tail(inputFile)

\* The lines after the header that are not blank: data_lines[n] comes from
\* RawDataRows[n].
RawDataRows == SelectSeq(RawRows, LAMBDA l : Strip(l) # <<>>)

\* At least 10 fields, a non-empty sample_id and a non-empty group_key.
RawValid(l) ==
    /\ Len(RawFields(l)) >= 10
    /\ RawFields(l)[1] # <<>>
    /\ RawFields(l)[2] # <<>>

RawEmptyId(l) ==
    \/ RawFields(l)[1] = <<>>
    \/ Len(RawFields(l)) < 2
    \/ RawFields(l)[2] = <<>>

RawValidIdx == { n \in 1..Len(RawRows) : RawValid(RawRows[n]) }

RawValidKeys == { RawFields(RawRows[n])[2] : n \in RawValidIdx }

RawValidCount(k) == Cardinality({ n \in RawValidIdx : RawFields(RawRows[n])[2] = k })

\* The lines of a file's content, without their terminators.
RECURSIVE FileLines(_)
FileLines(content) ==
    LET p == FirstIndex(content, NL)
    IN  IF content = <<>> THEN <<>>
        ELSE IF p = 0 THEN <<content>>
        ELSE <<SubSeq(content, 1, p - 1)>> \o FileLines(SubSeq(content, p + 1, Len(content)))

OutputLine(forward, reverse, name) == forward \o <<9>> \o reverse \o <<9>> \o name

OpenedSet == { opened[n] : n \in 1..Len(opened) }

Completed == pc = "done" /\ outcome = "complete"

\* The lines the rows accepted for sublibrary k give, row by row in input
\* order, the 16S line of each row directly before its ITS1 line.
RECURSIVE ExpectedLines(_, _)
ExpectedLines(rows, k) ==
    IF rows = <<>> THEN <<>>
    ELSE LET c == SplitOn(Strip(Head(rows)), TAB)
             mine == Len(c) >= 10 /\ c[1] # <<>> /\ c[2] = k
         IN  (IF mine
              THEN << OutputLine(c[4], c[6], c[1] \o <<95, 49, 54, 83>>),
                      OutputLine(c[8], c[10], c[1] \o <<95, 73, 84, 83, 49>>) >>
              ELSE <<>>) \o ExpectedLines(Tail(rows), k)

\* ------------------------------------------------------------------ claims

\* C1: after a completed call, files_created equals the number of distinct
\* non-empty group_key values among the rows of the table that have at least
\* 10 fields and a non-empty sample_id, and exactly one file <key>_tags.tsv
\* was written per such key.
C1_OneFilePerGroupKey ==
    Completed =>
        /\ files_created = Cardinality(RawValidKeys)
        /\ Len(opened) = Cardinality(RawValidKeys)
        /\ OpenedSet = RawValidKeys
        /\ \A k \in RawValidKeys : OutputFile(k) \in DOMAIN fs

\* C2: after a completed call, for every row of the table with at least 10
\* fields and non-empty sample_id and group_key, the group's file holds the
\* lines field3 TAB field5 TAB sample_id_16S and field7 TAB field9 TAB
\* sample_id_ITS1, also when a tag field is empty.
C2_BothLinesWritten ==
    Completed =>
        \A n \in RawValidIdx :
            LET f == RawFields(RawRows[n])
                name == OutputFile(f[2])
            IN  /\ name \in DOMAIN fs
                /\ \E a \in 1..Len(FileLines(fs[name])) :
                       FileLines(fs[name])[a] =
                           OutputLine(f[4], f[6], f[1] \o <<95, 49, 54, 83>>)
                /\ \E b \in 1..Len(FileLines(fs[name])) :
                       FileLines(fs[name])[b] =
                           OutputLine(f[8], f[10], f[1] \o <<95, 73, 84, 83, 49>>)

\* C3: the loop step that handles a row whose sample_id or group_key is
\* empty adds no record and no group, whatever the row's number of fields,
\* and goes on to the next row.
C3_EmptyIdRowSkipped ==
    [][ ( /\ pc = "group"
          /\ lineIdx <= Len(data_lines)
          /\ RawEmptyId(RawDataRows[lineIdx]) )
        => ( /\ sublibraries' = sublibraries
             /\ lineIdx' = lineIdx + 1
             /\ pc' = "group" ) ]_vars

\* C4: a call on an existing input file with no data line (a header only, or
\* no line at all) ends normally with zero groups and zero files.
C4_NoDataLines ==
    (pc = "done" /\ outcome # "missing" /\ Len(inputFile) <= 1) =>
        /\ outcome = "complete"
        /\ sublibraries = <<>>
        /\ files_created = 0
        /\ opened = <<>>
        /\ fs = fsAtCall

\* C5: a call on a missing input path returns without raising, writes no
\* file and does not create the output directory: the directory is as it was
\* before the call.
C5_MissingInput ==
    (pc = "done" /\ ~inputExists) =>
        /\ outcome = "missing"
        /\ fs = fsAtCall
        /\ dirExists = dirAtCall
        /\ opened = <<>>
        /\ openFiles = {}

C5_Witness ==
    pc = "done" /\ ~inputExists /\ outcome = "missing" /\ ~dirAtCall

\* C6: after a completed call, every group's file has exactly twice as many
\* lines as the table has valid rows (at least 10 fields, non-empty sample_id
\* and group_key) with that group_key.
C6_TwoLinesPerValidRow ==
    Completed =>
        \A k \in RawValidKeys \cup OpenedSet :
            /\ OutputFile(k) \in DOMAIN fs
            /\ Len(FileLines(fs[OutputFile(k)])) = 2 * RawValidCount(k)

\* C7: after a completed call, every file written holds the records of its
\* rows in the order of the rows in the input, and the _16S record of a row
\* is on the line directly before the _ITS1 record of the same row.
C7_OrderPreserved ==
    Completed =>
        \A n \in 1..Len(opened) :
            FileLines(fs[OutputFile(opened[n])]) = ExpectedLines(RawDataRows, opened[n])

C7_Witness ==
    /\ Completed
    /\ \E n \in 1..Len(opened) :
           LET ls == FileLines(fs[OutputFile(opened[n])])
           IN  Len(ls) >= 4 /\ ls[1] # ls[3]

\* C8: a second call with the same input file and output directory leaves
\* every file of the directory with the content it had after the first call
\* (files are overwritten, not appended to), and creating the directory that
\* already exists raises no error.
C8_RerunIdentical ==
    (pc = "done" /\ runs >= 2 /\ inputExists) =>
        /\ fs = fsAtCall
        /\ dirExists = dirAtCall
        /\ outcome # "FileExistsError"
        /\ (inputFile # <<>> => outcome = "complete")

C8_Witness ==
    pc = "done" /\ runs >= 2 /\ inputExists /\ files_created >= 2 /\ dirAtCall

\* C9: a row with fewer than 10 fields is dropped or skipped and the loop
\* goes on: the step that handles it changes no group; at every point every
\* group holds a non-zero, even number of records, and every file written
\* and closed is non-empty.
C9_ShortRowIsShort ==
    \A n \in 1..Len(RawRows) :
        Len(RawFields(RawRows[n])) < 10 =>
            \/ Strip(RawRows[n]) = <<>>
            \/ Len(SplitOn(Strip(RawRows[n]), TAB)) < 10

C9_GroupsNonEmptyEven ==
    \A n \in 1..Len(sublibraries) :
        /\ Len(sublibraries[n].samples) > 0
        /\ Len(sublibraries[n].samples) % 2 = 0

C9_NoEmptyFile ==
    \A n \in 1..Len(opened) :
        OutputFile(opened[n]) \notin openFiles => fs[OutputFile(opened[n])] # <<>>

C9_ShortRowSkipped ==
    /\ [](C9_ShortRowIsShort /\ C9_GroupsNonEmptyEven /\ C9_NoEmptyFile)
    /\ [][ ( /\ pc = "group"
             /\ lineIdx <= Len(data_lines)
             /\ Len(RawFields(RawDataRows[lineIdx])) < 10 )
           => ( /\ sublibraries' = sublibraries
                /\ lineIdx' = lineIdx + 1
                /\ pc' = "group" ) ]_vars

C9_Witness ==
    /\ Completed
    /\ files_created >= 1
    /\ \E n \in 1..Len(RawDataRows) : Len(RawFields(RawDataRows[n])) < 10

\* C10: no output file is opened before every input line has been grouped;
\* files are opened in ascending group_key order; at most one output file is
\* open at a time, and a file that has been closed holds all its group's
\* records.
C10_WriteAfterGroupingInOrder ==
    /\ (opened # <<>> \/ openFiles # {}) =>
           (pc \in {"next_key", "write", "done"} /\ lineIdx > Len(data_lines))
    /\ Cardinality(openFiles) <= 1
    /\ \A a, b \in 1..Len(opened) : a < b => StrLess(opened[a], opened[b])
    /\ \A n \in 1..Len(opened) :
           OutputFile(opened[n]) \notin openFiles =>
               Len(FileLines(fs[OutputFile(opened[n])])) =
                   Len(DictGet(sublibraries, opened[n]))

C10_Witness ==
    Completed /\ Len(opened) >= 2 /\ openFiles = {}

====
